---- MODULE Spec2Model ----
(***************************************************************************)
(* Deletion-safety core of ticktick-access: the settings store             *)
(* (ticktick/config.py), the OTP gate (ticktick/sdk/security.py), the      *)
(* archiver (ticktick/sdk/archiver.py) and the deletion policy engine      *)
(* (ticktick/sdk/tasks.py, delete_task).                                   *)
(*                                                                         *)
(* A Python value is a record of its type and content (PyStr, PyBool,      *)
(* PyNone).  Wall clock time (time.time()) is the integer variable now.    *)
(***************************************************************************)
EXTENDS Integers, Sequences, FiniteSets, TLC

\* ------------------------------------------------------------------ bounds
\* The clock runs from 0 to MaxTime.
MaxTime == 2
\* generate_otp(expiry_seconds) is called with 0..MaxExpiry.
MaxExpiry == 1
\* Length of the window of OTP operations kept for observation.
HistLen == 3
\* Number of delete_task invocations in one behaviour of SpecSeq.
MaxCalls == 3
\* Number of direct archive_deleted_task calls in one behaviour of SpecArchiver.
MaxArchives == 2

\* ------------------------------------------------------------------ values
\* A Python value: its type and its content.
PyStr(s) == [ty |-> "str", v |-> s]
PyBool(b) == [ty |-> "bool", v |-> IF b THEN "True" ELSE "False"]
PyNone == [ty |-> "NoneType", v |-> ""]

\* bool(x) for the values of the model.
Truthy(x) ==
    CASE x.ty = "NoneType" -> FALSE
      [] x.ty = "bool" -> x.v = "True"
      [] OTHER -> x.v # ""

\* Codes secrets.choice can produce (6 characters, uppercase letters and digits).
Codes == {"ABC123", "XYZ789"}

\* Values a caller can pass as otp / provided_otp.
OtpArgs == {PyStr(c) : c \in Codes} \cup {PyNone, PyStr("")}

\* Values delete_task is given as otp.
DeleteOtpArgs == {PyNone, PyStr(""), PyStr("ABC123")}

\* The OTP cache file delete_otp.json: absent, or the JSON object
\* {"otp": ..., "expires_at": ...}.
NoOtpFile == [exists |-> FALSE, otp |-> "", expires_at |-> 0]

VARIABLES
    now,        \* time.time()
    otpFile,    \* content of delete_otp.json
    settings,   \* the "settings" mapping of config.yaml: stored key -> value
    snapshots,  \* snapshot files written by the archiver: path -> content
    auditLog,   \* lines of deleted-tasks.log
    call,       \* the delete_task invocation in progress, or the last one finished
    ncalls,     \* number of delete_task invocations so far
    otpHist,    \* the last HistLen direct OTP operations, oldest first (observation)
    lastCode,   \* code returned by the latest generate_otp, "" before (observation)
    tries,      \* delete_task invocations that called validate_otp since the
                \* latest generate_otp (observation)
    passes,     \* ... and those of them for which it returned True (observation)
    token,      \* what config.get_token finds in the environment or the token
                \* file, "" when neither holds one
    lastSet,    \* the latest direct set_setting call and its outcome (observation)
    lastGet,    \* the latest direct get_setting call since then (observation)
    lastArchive, \* the latest direct archive_deleted_task call (observation)
    narch,      \* number of direct archive_deleted_task calls so far
    validators, \* the concurrent validate_otp calls: process -> position,
                \* argument, record read, return value
    creds,      \* client_id and client_secret of config.yaml ("" when not stored)
    lastList,   \* what the latest list_settings call returned, <<>> before
                \* and after any later set_setting (observation)
    writers     \* the concurrent set_setting calls: process -> position,
                \* arguments, document loaded, turn in which it saved

otpVars == <<otpFile, otpHist, lastCode, tries, passes>>
engineVars == <<settings, snapshots, auditLog, call, ncalls>>
sideVars == <<lastArchive, narch, validators, creds, lastList, writers>>
auxVars == <<token, lastSet, lastGet, sideVars>>
vars == <<now, otpVars, engineVars, auxVars>>

\* ------------------------------------------------------------------ OTP gate
\* A generate_otp that leaves a record that is already there (mutant).
generate_otp_keeps_prior(file, otp, expiry_seconds, t) ==
    [otp  |-> otp,
     file |-> IF file.exists THEN file
              ELSE [exists |-> TRUE, otp |-> otp, expires_at |-> t + expiry_seconds]]

\* security.generate_otp: the file is opened with 'w', so whatever record was
\* there is replaced by {otp, expires_at = time.time() + expiry_seconds}.
generate_otp(file, otp, expiry_seconds, t) ==
    [otp  |-> otp,
     file |-> [exists |-> TRUE, otp |-> otp, expires_at |-> t + expiry_seconds]]

\* A validate_otp that never unlinks the file (mutant).
validate_otp_no_unlink(file, provided_otp, t) ==
    [result |-> file.exists /\ PyStr(file.otp) = provided_otp /\ ~(t > file.expires_at),
     file   |-> file]

\* A validate_otp that unlinks only once the code has matched (mutant).
validate_otp_unlink_on_match(file, provided_otp, t) ==
    IF ~file.exists \/ PyStr(file.otp) # provided_otp
    THEN [result |-> FALSE, file |-> file]
    ELSE [result |-> ~(t > file.expires_at), file |-> NoOtpFile]

\* A validate_otp that rejects the code at the very second it expires (mutant).
validate_otp_expiry_off_by_one(file, provided_otp, t) ==
    IF ~file.exists
    THEN [result |-> FALSE, file |-> file]
    ELSE [result |-> PyStr(file.otp) = provided_otp /\ ~(t >= file.expires_at),
          file   |-> NoOtpFile]

\* security.validate_otp: False when the file is absent; otherwise the file is
\* read and unlinked before anything is compared, then the code and the
\* expiry are checked.  (The except branch needs a file json.load rejects;
\* generate_otp writes none.)
validate_otp(file, provided_otp, t) ==
    IF ~file.exists
    THEN [result |-> FALSE, file |-> file]
    ELSE [result |-> IF PyStr(file.otp) # provided_otp THEN FALSE
                     ELSE IF t > file.expires_at THEN FALSE
                     ELSE TRUE,
          file   |-> NoOtpFile]

Push(h, e) == IF Len(h) < HistLen THEN Append(h, e) ELSE Append(Tail(h), e)

\* cli auth generate-otp / security.generate_otp(expiry_seconds).  The
\* operation is recorded in otpHist when observed.
GenerateOtp(observed) ==
    \E c \in Codes, e \in 0..MaxExpiry :
        LET g == generate_otp(otpFile, c, e, now) IN
        /\ otpFile' = g.file
        /\ lastCode' = g.otp
        /\ otpHist' = IF observed
                      THEN Push(otpHist, [op |-> "generate", code |-> PyStr(g.otp),
                                          expiry |-> e, at |-> now,
                                          had |-> otpFile.exists, result |-> FALSE])
                      ELSE otpHist
        /\ tries' = 0
        /\ passes' = 0
        /\ UNCHANGED <<now, engineVars, auxVars>>

\* A direct call of security.validate_otp(provided_otp).
ValidateOtp ==
    \E p \in OtpArgs :
        LET v == validate_otp(otpFile, p, now) IN
        /\ otpFile' = v.file
        /\ otpHist' = Push(otpHist, [op |-> "validate", code |-> p, expiry |-> 0,
                                     at |-> now, had |-> otpFile.exists,
                                     result |-> v.result])
        /\ UNCHANGED <<now, lastCode, tries, passes, engineVars, auxVars>>

\* The wall clock advances.
Tick ==
    /\ now < MaxTime
    /\ now' = now + 1
    /\ UNCHANGED <<otpVars, engineVars, auxVars>>

\* ------------------------------------------------------------------ concurrent validate_otp
\* The processes that call validate_otp at the same time.
Validators == {"v1", "v2"}

\* A validate_otp call that has not started.
NoValidator == [pc |-> "idle", provided |-> PyNone, data |-> NoOtpFile, result |-> FALSE]

\* A step that goes on to the comparison when the record is already gone at
\* the unlink, as path.unlink(missing_ok=True) would (mutant).
validate_otp_step_unlink_tolerant(v, file, t) ==
    CASE v.pc = "exists" ->
            [v |-> IF file.exists THEN [v EXCEPT !.pc = "read"]
                   ELSE [v EXCEPT !.pc = "done", !.result = FALSE],
             file |-> file]
      [] v.pc = "read" ->
            [v |-> IF file.exists THEN [v EXCEPT !.pc = "unlink", !.data = file]
                   ELSE [v EXCEPT !.pc = "done", !.result = FALSE],
             file |-> file]
      [] v.pc = "unlink" ->
            [v |-> [v EXCEPT !.pc = "compare"], file |-> NoOtpFile]
      [] OTHER ->
            [v |-> [v EXCEPT !.pc = "done",
                             !.result = /\ PyStr(v.data.otp) = v.provided
                                        /\ ~(t > v.data.expires_at)],
             file |-> file]

\* One step of validate_otp in a process at position v.pc: the existence test
\* (line 35), open and json.load (39-40), unlink (43), the comparisons
\* (45-51).  open and unlink raise FileNotFoundError when another process
\* removed the file in between; the except clause (52-53) returns False.
validate_otp_step(v, file, t) ==
    CASE v.pc = "exists" ->
            [v |-> IF file.exists THEN [v EXCEPT !.pc = "read"]
                   ELSE [v EXCEPT !.pc = "done", !.result = FALSE],
             file |-> file]
      [] v.pc = "read" ->
            [v |-> IF file.exists THEN [v EXCEPT !.pc = "unlink", !.data = file]
                   ELSE [v EXCEPT !.pc = "done", !.result = FALSE],
             file |-> file]
      [] v.pc = "unlink" ->
            [v |-> IF file.exists THEN [v EXCEPT !.pc = "compare"]
                   ELSE [v EXCEPT !.pc = "done", !.result = FALSE],
             file |-> NoOtpFile]
      [] OTHER ->
            [v |-> [v EXCEPT !.pc = "done",
                             !.result = /\ PyStr(v.data.otp) = v.provided
                                        /\ ~(t > v.data.expires_at)],
             file |-> file]

\* A process calls validate_otp(provided_otp).
ValidatorStarts ==
    \E p \in Validators, provided \in OtpArgs :
        /\ validators[p].pc = "idle"
        /\ validators' = [validators EXCEPT ![p] = [NoValidator EXCEPT !.pc = "exists",
                                                                      !.provided = provided]]
        /\ UNCHANGED <<now, otpVars, engineVars, token, lastSet, lastGet, lastArchive, narch,
                       creds, lastList, writers>>

\* A process takes its next step of validate_otp.
ValidatorStep ==
    \E p \in Validators :
        /\ validators[p].pc \in {"exists", "read", "unlink", "compare"}
        /\ LET r == validate_otp_step(validators[p], otpFile, now) IN
           /\ validators' = [validators EXCEPT ![p] = r.v]
           /\ otpFile' = r.file
        /\ UNCHANGED <<now, otpHist, lastCode, tries, passes, engineVars, token,
                       lastSet, lastGet, lastArchive, narch, creds, lastList, writers>>

\* generate_otp stores the record the concurrent calls are about, before any
\* of them starts.
GenerateBeforeRace ==
    /\ \A p \in Validators : validators[p].pc = "idle"
    /\ GenerateOtp(FALSE)

\* ------------------------------------------------------------------ settings store
\* The bundled settings-manifest.yaml, as load_manifest returns it: the three
\* keys of the deletion policy.
Manifest ==
    [k \in {"deletion.access", "deletion.disable_auto_archive", "deletion.archive"} |->
        CASE k = "deletion.access" ->
                [type |-> "choice", default |-> PyStr("enabled"),
                 options |-> {"enabled", "elevated", "disabled"}]
          [] k = "deletion.disable_auto_archive" ->
                [type |-> "boolean", default |-> PyBool(FALSE), options |-> {}]
          [] OTHER ->
                [type |-> "string", default |-> PyNone, options |-> {}]]

\* config.load_manifest.
load_manifest == Manifest

\* str.lower() on the texts the model writes.
Lower(s) ==
    CASE s = "TRUE" -> "true"
      [] s = "True" -> "true"
      [] s = "Yes" -> "yes"
      [] s = "ON" -> "on"
      [] s = "False" -> "false"
      [] s = "No" -> "no"
      [] s = "OFF" -> "off"
      [] s = "oN" -> "on"
      [] s = "fALSE" -> "false"
      [] s = "Enabled" -> "enabled"
      [] OTHER -> s

\* dict.get(key) on the stored settings mapping.
DictGet(cfg, key) == IF key \in DOMAIN cfg THEN cfg[key] ELSE PyNone

\* A get_setting that tests the stored value for truth (`if user_val:`), so
\* that an empty or false override gives way to the default (mutant).
get_setting_truthy(cfg, key) ==
    LET user_val == DictGet(cfg, key) IN
    IF Truthy(user_val) THEN user_val
    ELSE IF key \in DOMAIN load_manifest THEN load_manifest[key].default
    ELSE PyNone

\* config.get_setting: the stored value unless it is None, else the manifest
\* default, else None.
get_setting(cfg, key) ==
    LET user_val == DictGet(cfg, key) IN
    IF user_val # PyNone THEN user_val
    ELSE IF key \in DOMAIN load_manifest THEN load_manifest[key].default
    ELSE PyNone

\* A set_setting that stores a key the manifest does not have (mutant).
set_setting_stores_unknown(cfg, key, value) ==
    IF key \notin DOMAIN load_manifest
    THEN [raised |-> "",
          cfg |-> [k \in DOMAIN cfg \cup {key} |-> IF k = key THEN value ELSE cfg[k]]]
    ELSE
        LET setting_def == load_manifest[key]
            stype == setting_def.type
            isText == stype = "boolean" /\ value.ty = "str"
            badBool == isText /\ Lower(value.v) \notin
                          {"true", "yes", "1", "on", "false", "no", "0", "off"}
            converted == IF isText /\ ~badBool
                         THEN PyBool(Lower(value.v) \in {"true", "yes", "1", "on"})
                         ELSE value
            badChoice == stype = "choice" /\
                            ~(converted.ty = "str" /\ converted.v \in setting_def.options)
        IN  IF badBool THEN [raised |-> "Invalid boolean value", cfg |-> cfg]
            ELSE IF badChoice THEN [raised |-> "Invalid value", cfg |-> cfg]
            ELSE [raised |-> "",
                  cfg |-> [k \in DOMAIN cfg \cup {key} |->
                              IF k = key THEN converted ELSE cfg[k]]]

\* A set_setting that compares boolean texts without lowering them (mutant).
set_setting_case_sensitive(cfg, key, value) ==
    IF key \notin DOMAIN load_manifest
    THEN [raised |-> "Unknown setting", cfg |-> cfg]
    ELSE
        LET setting_def == load_manifest[key]
            stype == setting_def.type
            isText == stype = "boolean" /\ value.ty = "str"
            badBool == isText /\ value.v \notin
                          {"true", "yes", "1", "on", "false", "no", "0", "off"}
            converted == IF isText /\ ~badBool
                         THEN PyBool(value.v \in {"true", "yes", "1", "on"})
                         ELSE value
            badChoice == stype = "choice" /\
                            ~(converted.ty = "str" /\ converted.v \in setting_def.options)
        IN  IF badBool THEN [raised |-> "Invalid boolean value", cfg |-> cfg]
            ELSE IF badChoice THEN [raised |-> "Invalid value", cfg |-> cfg]
            ELSE [raised |-> "",
                  cfg |-> [k \in DOMAIN cfg \cup {key} |->
                              IF k = key THEN converted ELSE cfg[k]]]

\* A set_setting that does not check a choice against its options (mutant).
set_setting_no_choice_check(cfg, key, value) ==
    IF key \notin DOMAIN load_manifest
    THEN [raised |-> "Unknown setting", cfg |-> cfg]
    ELSE
        LET setting_def == load_manifest[key]
            stype == setting_def.type
            isText == stype = "boolean" /\ value.ty = "str"
            badBool == isText /\ Lower(value.v) \notin
                          {"true", "yes", "1", "on", "false", "no", "0", "off"}
            converted == IF isText /\ ~badBool
                         THEN PyBool(Lower(value.v) \in {"true", "yes", "1", "on"})
                         ELSE value
            badChoice == FALSE
        IN  IF badBool THEN [raised |-> "Invalid boolean value", cfg |-> cfg]
            ELSE IF badChoice THEN [raised |-> "Invalid value", cfg |-> cfg]
            ELSE [raised |-> "",
                  cfg |-> [k \in DOMAIN cfg \cup {key} |->
                              IF k = key THEN converted ELSE cfg[k]]]

\* config.set_setting: raised is "" when the call returns, else the ValueError;
\* cfg is the settings mapping of the document saved (unchanged on a raise).
set_setting(cfg, key, value) ==
    IF key \notin DOMAIN load_manifest
    THEN [raised |-> "Unknown setting", cfg |-> cfg]
    ELSE
        LET setting_def == load_manifest[key]
            stype == setting_def.type
            isText == stype = "boolean" /\ value.ty = "str"
            badBool == isText /\ Lower(value.v) \notin
                          {"true", "yes", "1", "on", "false", "no", "0", "off"}
            converted == IF isText /\ ~badBool
                         THEN PyBool(Lower(value.v) \in {"true", "yes", "1", "on"})
                         ELSE value
            badChoice == stype = "choice" /\
                            ~(converted.ty = "str" /\ converted.v \in setting_def.options)
        IN  IF badBool THEN [raised |-> "Invalid boolean value", cfg |-> cfg]
            ELSE IF badChoice THEN [raised |-> "Invalid value", cfg |-> cfg]
            ELSE [raised |-> "",
                  cfg |-> [k \in DOMAIN cfg \cup {key} |->
                              IF k = key THEN converted ELSE cfg[k]]]

\* The set_setting calls made while deletions run.
EngineSettingInputs ==
    {<<"deletion.access", PyStr(m)>> : m \in {"elevated", "disabled", "off"}}
    \cup {<<"deletion.disable_auto_archive", PyStr(b)>> : b \in {"True", "maybe"}}
    \cup {<<"deletion.archive", PyStr("/cfg/archive")>>, <<"deletion.acces", PyStr("disabled")>>}

\* cli settings set <key> <value> / config.set_setting(key, value).
SetSetting(inputs) ==
    \E kv \in inputs :
        /\ settings' = set_setting(settings, kv[1], kv[2]).cfg
        /\ UNCHANGED <<now, otpVars, snapshots, auditLog, call, ncalls, auxVars>>

\* Before any direct set_setting / get_setting call.
NoSet == [key |-> "", value |-> PyNone, raised |-> "none", before |-> [k \in {} |-> PyNone]]
NoGet == [key |-> "", value |-> PyNone]

\* Keys set_setting and get_setting are called with: the manifest's and a
\* misspelt one.
SettingKeys == DOMAIN load_manifest \cup {"deletion.acces"}

\* Values set_setting is called with: None (cli settings ... clear), texts
\* (cli settings ... set), and Python booleans.
SettingTexts ==
    {"enabled", "disabled", "Enabled", "true", "TRUE", "Yes", "1", "oN",
     "false", "fALSE", "No", "0", "OFF", "maybe", "", "/cfg/archive"}
SettingValues == {PyNone, PyBool(TRUE), PyBool(FALSE)} \cup {PyStr(x) : x \in SettingTexts}

\* config.yaml without client credentials.
NoCreds == [client_id |-> "", client_secret |-> ""]

\* config.load_config: the whole document, credentials and settings.
load_config(cr, st) == [creds |-> cr, settings |-> st]

\* A set_setting that saves a document holding the settings alone (mutant).
set_setting_document_settings_only(config, key, value) ==
    LET r == set_setting(config.settings, key, value) IN
    [raised |-> r.raised,
     config |-> IF r.raised = "" THEN [creds |-> NoCreds, settings |-> r.cfg]
                ELSE config]

\* config.set_setting on the document: validation, then load_config, the
\* assignment config["settings"][key] = value and save_config of the whole
\* document (lines 73-79); nothing is saved when validation raised.
set_setting_document(config, key, value) ==
    LET r == set_setting(config.settings, key, value) IN
    [raised |-> r.raised,
     config |-> IF r.raised = "" THEN [config EXCEPT !.settings = r.cfg] ELSE config]

\* config.save_client_credentials on the document.
save_client_credentials(config, client_id, client_secret) ==
    [config EXCEPT !.creds = [client_id |-> client_id, client_secret |-> client_secret]]

\* The order in which the manifest lists its keys.
ManifestOrder == <<"deletion.access", "deletion.disable_auto_archive", "deletion.archive">>

\* config.list_settings: for each manifest key, in manifest order, the stored
\* value if the key is stored (config.get(key, default)), else the default.
list_settings(cfg) ==
    [i \in 1..Len(ManifestOrder) |->
        LET key == ManifestOrder[i] IN
        [key |-> key,
         value |-> IF key \in DOMAIN cfg THEN cfg[key] ELSE load_manifest[key].default,
         default |-> load_manifest[key].default,
         type |-> load_manifest[key].type]]

\* A direct config.set_setting(key, value), its outcome recorded.
CallSetSetting ==
    \E key \in SettingKeys, value \in SettingValues :
        LET r == set_setting_document(load_config(creds, settings), key, value) IN
        /\ settings' = r.config.settings
        /\ creds' = r.config.creds
        /\ lastSet' = [key |-> key, value |-> value, raised |-> r.raised,
                       before |-> settings]
        /\ lastGet' = NoGet
        /\ lastList' = <<>>
        /\ UNCHANGED <<now, otpVars, snapshots, auditLog, call, ncalls, token,
                       lastArchive, narch, validators, writers>>

\* Credentials the OAuth setup stores.
ClientCredentials == {<<"id1", "secret1">>, <<"id2", "secret2">>}

\* cli auth setup / config.save_client_credentials(client_id, client_secret).
SaveClientCredentials ==
    \E c \in ClientCredentials :
        LET config == save_client_credentials(load_config(creds, settings), c[1], c[2]) IN
        /\ creds' = config.creds
        /\ settings' = config.settings
        /\ UNCHANGED <<now, otpVars, snapshots, auditLog, call, ncalls, token,
                       lastSet, lastGet, lastList, lastArchive, narch, validators, writers>>

\* The processes that call set_setting at the same time.
Writers == {"w1", "w2"}

\* A set_setting call that has not started.
NoWriter == [pc |-> "idle", key |-> "", value |-> PyNone,
             config |-> load_config(NoCreds, [k \in {} |-> PyNone]), turn |-> 0]

\* A save that reads the file again and sets its own key in what it finds
\* (mutant).
writer_save_merging(w, current) ==
    [current EXCEPT !.settings = set_setting(current.settings, w.key, w.value).cfg]

\* set_setting lines 77-79: the assignment in the document loaded earlier and
\* save_config of that document over the file, whatever the file holds by now
\* (current is not read).
writer_save(w, current) ==
    [w.config EXCEPT !.settings = set_setting(w.config.settings, w.key, w.value).cfg]

\* A process calls set_setting(key, value), on a key no other call is on, and
\* runs it up to load_config (lines 51-73): a call that fails validation ends
\* there.
WriterLoads ==
    \E p \in Writers, kv \in EngineSettingInputs :
        /\ writers[p].pc = "idle"
        /\ \A q \in Writers \ {p} : writers[q].key # kv[1]
        /\ LET config == load_config(creds, settings)
               raised == set_setting(config.settings, kv[1], kv[2]).raised
           IN  writers' = [writers EXCEPT ![p] =
                             [pc |-> IF raised = "" THEN "loaded" ELSE "failed",
                              key |-> kv[1], value |-> kv[2],
                              config |-> IF raised = "" THEN config ELSE NoWriter.config,
                              turn |-> 0]]
        /\ UNCHANGED <<now, otpVars, engineVars, token, lastSet, lastGet,
                       lastArchive, narch, validators, creds, lastList>>

\* A process that has loaded the document assigns its key and saves.
WriterSaves ==
    \E p \in Writers :
        /\ writers[p].pc = "loaded"
        /\ LET saved == writer_save(writers[p], load_config(creds, settings)) IN
           /\ settings' = saved.settings
           /\ creds' = saved.creds
        /\ writers' = [writers EXCEPT ![p].pc = "done",
                                      ![p].turn = 1 + Cardinality({q \in Writers :
                                                        writers[q].pc = "done"})]
        /\ UNCHANGED <<now, otpVars, snapshots, auditLog, call, ncalls, token,
                       lastSet, lastGet, lastArchive, narch, validators, lastList>>

\* A direct config.list_settings(), its return value recorded.
CallListSettings ==
    /\ lastList' = list_settings(settings)
    /\ UNCHANGED <<now, otpVars, engineVars, token, lastSet, lastGet,
                   lastArchive, narch, validators, creds, writers>>

\* A direct config.get_setting(key), its return value recorded.
CallGetSetting ==
    \E key \in SettingKeys :
        /\ lastGet' = [key |-> key, value |-> get_setting(settings, key)]
        /\ UNCHANGED <<now, otpVars, engineVars, token, lastSet, sideVars>>

\* ------------------------------------------------------------------ archiver
ProjectId == "p1"
TaskIds == {"t1"}
\* get_cache_dir() / "deleted_tasks", get_cache_dir() being
\* <XDG_CACHE_HOME or ~/.cache>/ticktick-access.
DefaultArchiveDir == "<cache>/ticktick-access/deleted_tasks"

\* A task body as the API returns it (a dict; the empty dict has title "").
PyDict(title) == [ty |-> "dict", v |-> title]

\* A snapshot name stamped to the day instead of the second (mutant).
SnapshotNameDateOnly(project_id, task_id, t) ==
    <<"task_", task_id, "_project_", project_id, ".deleted_", 0, ".json">>

\* f"task_{task_id}_project_{project_id}.deleted_{timestamp_file}.json", the
\* timestamp being now to the second.
SnapshotName(project_id, task_id, t) ==
    <<"task_", task_id, "_project_", project_id, ".deleted_", t, ".json">>

\* Where an I/O failure can strike in archive_deleted_task: nowhere, resolving
\* the cache directory (get_cache_dir), creating the destination directory,
\* opening the snapshot, dumping into it, appending the log.
IoOutcomes == {"ok", "cache", "mkdir", "open", "dump", "log"}

\* An archiver that writes every snapshot under the cache directory, whatever
\* destination it is given (mutant).
archive_deleted_task_default_dir(fs, project_id, task_id, task_data, archive_path, t, io) ==
    LET json_path == [dir |-> DefaultArchiveDir,
                      name |-> SnapshotName(project_id, task_id, t)]
        written(content) ==
            [q \in DOMAIN fs.snapshots \cup {json_path} |->
                IF q = json_path THEN content ELSE fs.snapshots[q]]
        log_line == [task |-> task_id, project |-> project_id, on |-> t,
                     snapshot |-> json_path]
    IN  CASE io \in {"cache", "mkdir", "open"} -> fs
          [] io = "dump" -> [fs EXCEPT !.snapshots = written("<partial>")]
          [] io = "log" -> [fs EXCEPT !.snapshots = written(task_data.v)]
          [] OTHER -> [snapshots |-> written(task_data.v),
                       log |-> Append(fs.log, log_line)]

\* An archiver that appends its log line before it writes the snapshot, so
\* that the line is there whatever happens to the snapshot (mutant).
archive_deleted_task_log_first(fs, project_id, task_id, task_data, archive_path, t, io) ==
    LET archive_dir == IF Truthy(archive_path) THEN archive_path.v ELSE DefaultArchiveDir
        json_path == [dir |-> archive_dir, name |-> SnapshotName(project_id, task_id, t)]
        written(content) ==
            [q \in DOMAIN fs.snapshots \cup {json_path} |->
                IF q = json_path THEN content ELSE fs.snapshots[q]]
        log_line == [task |-> task_id, project |-> project_id, on |-> t,
                     snapshot |-> json_path]
        logged == Append(fs.log, log_line)
    IN  CASE io \in {"cache", "mkdir"} -> fs
          [] io = "open" -> [fs EXCEPT !.log = logged]
          [] io = "dump" -> [snapshots |-> written("<partial>"), log |-> logged]
          [] io = "log" -> [fs EXCEPT !.snapshots = written(task_data.v)]
          [] OTHER -> [snapshots |-> written(task_data.v), log |-> logged]

\* archiver.archive_deleted_task: fs is [snapshots, log]; every exception is
\* caught, so the call returns in each case.  (Line 24 annotates archive_path
\* with Optional, which archiver.py does not import: the module loads only
\* where annotations are not evaluated at definition time.  The model takes
\* the module as loaded, as the repository's tests of it do.)
archive_deleted_task(fs, project_id, task_id, task_data, archive_path, t, io) ==
    LET archive_dir == IF Truthy(archive_path) THEN archive_path.v ELSE DefaultArchiveDir
        json_path == [dir |-> archive_dir, name |-> SnapshotName(project_id, task_id, t)]
        written(content) ==
            [q \in DOMAIN fs.snapshots \cup {json_path} |->
                IF q = json_path THEN content ELSE fs.snapshots[q]]
        log_line == [task |-> task_id, project |-> project_id, on |-> t,
                     snapshot |-> json_path]
    IN  CASE io \in {"cache", "mkdir", "open"} -> fs
          [] io = "dump" -> [fs EXCEPT !.snapshots = written("<partial>")]
          [] io = "log" -> [fs EXCEPT !.snapshots = written(task_data.v)]
          [] OTHER -> [snapshots |-> written(task_data.v),
                       log |-> Append(fs.log, log_line)]

\* Before any direct archive_deleted_task call.
NoArchive ==
    [io |-> "none", project_id |-> "", task_id |-> "", task_data |-> PyNone,
     archive_path |-> PyNone, at |-> 0,
     before |-> [snapshots |-> [q \in {} |-> ""], log |-> <<>>]]

\* Arguments of the direct archive_deleted_task calls.
ArchiveProjects == {"p1", "p2"}
ArchiveTasks == {"t1", "t2"}
ArchiveBodies == {PyDict("X"), PyDict("Y")}
ArchiveDirArgs == {PyNone, PyStr("/my/archive")}

\* A direct archiver.archive_deleted_task(project_id, task_id, task_data,
\* archive_path), with any I/O outcome; the call and the files before it are
\* recorded.
CallArchive ==
    /\ narch < MaxArchives
    /\ \E project_id \in ArchiveProjects, task_id \in ArchiveTasks,
          task_data \in ArchiveBodies, archive_path \in ArchiveDirArgs,
          io \in IoOutcomes :
          LET fs == [snapshots |-> snapshots, log |-> auditLog]
              r == archive_deleted_task(fs, project_id, task_id, task_data,
                                        archive_path, now, io)
          IN  /\ snapshots' = r.snapshots
              /\ auditLog' = r.log
              /\ lastArchive' = [io |-> io, project_id |-> project_id,
                                 task_id |-> task_id, task_data |-> task_data,
                                 archive_path |-> archive_path, at |-> now,
                                 before |-> fs]
    /\ narch' = narch + 1
    /\ UNCHANGED <<now, otpVars, settings, call, ncalls, token, lastSet, lastGet,
                   validators, creds, lastList, writers>>

\* ------------------------------------------------------------------ API client
\* What httpx hands to TickTickClient.request: a response with a status and a
\* body, or an httpx.RequestError (no response at all).  A body is the list
\* of the parts of its text; <<>> is the empty body.
Http(status, body) == [kind |-> "response", status |-> status, body |-> body]
TransportError == [kind |-> "RequestError", status |-> 0, body |-> <<>>]
NoResponse == [kind |-> "none", status |-> 0, body |-> <<>>]
EmptyBody == <<>>
EmptyObject == <<"{}">>
TaskJson(title) == <<"{\"title\": \"", title, "\"}">>

\* response.raise_for_status(): raises httpx.HTTPStatusError on 4xx and 5xx.
RaisesForStatus(status) == status >= 400

\* response.json(): json.loads of the body; the empty text is not JSON and
\* raises json.JSONDecodeError.
ResponseJson(body) ==
    IF body = EmptyBody THEN [raised |-> TRUE, value |-> PyNone]
    ELSE IF body = EmptyObject THEN [raised |-> FALSE, value |-> [ty |-> "dict", v |-> ""]]
    ELSE [raised |-> FALSE, value |-> [ty |-> "dict", v |-> body[2]]]

\* TickTickClient.request from the response on (lines 57-71): None for a
\* transport error, for an error status and for any other exception, the
\* JSON decode error of response.json() included; otherwise the parsed body.
request(resp) ==
    IF resp.kind = "RequestError" THEN PyNone
    ELSE IF RaisesForStatus(resp.status) THEN PyNone
    ELSE LET parsed == ResponseJson(resp.body) IN
         IF parsed.raised THEN PyNone ELSE parsed.value

\* config.get_token: the token of the environment or of the token file, a
\* ValueError when there is none.
get_token(tok) == [raised |-> tok = "", value |-> tok]

\* auth.py / config.save_token: the OAuth flow stores an access token.
SaveToken ==
    /\ token = ""
    /\ token' = "tok"
    /\ UNCHANGED <<now, otpVars, engineVars, lastSet, lastGet, sideVars>>

\* ------------------------------------------------------------------ deletion policy engine
\* A result is {"success": ..., key: text}; text is the list of the parts of
\* the f-string.
NoResult == [success |-> FALSE, key |-> "", text |-> <<>>]
Failure(text) == [success |-> FALSE, key |-> "error", text |-> text]
Success(text) == [success |-> TRUE, key |-> "message", text |-> text]

DisabledError == <<"Deletion is disabled in settings (deletion.access).">>
OtpRequiredError == <<"OTP required for deletion (elevated access).">>
InvalidOtpError == <<"Security Check Failed: Invalid or expired OTP.">>
DeletedMessage(task_id) == <<"Task ", task_id, " deleted successfully.">>
DeleteFailedError(task_id) == <<"Failed to delete task ", task_id>>

Event(ev, data, path) == [ev |-> ev, data |-> data, path |-> path]

\* No invocation yet.
IdleCall ==
    [pc |-> "idle", task_id |-> "", archive_path |-> PyNone, otp |-> PyNone,
     elevated |-> FALSE, access_mode |-> PyNone, validated |-> "no", try_no |-> 0,
     disable_auto |-> PyStr("<unread>"), should_archive |-> FALSE,
     resolved_path |-> PyNone, task_data |-> PyNone, events |-> <<>>,
     response |-> NoResponse, result |-> NoResult]

\* An access check that compares with a misspelt mode (mutant).
AccessDeniedMisspelt(access_mode) == access_mode = PyStr("disable")

\* delete_task step 1: the access mode that stops the invocation.
AccessDenied(access_mode) == access_mode = PyStr("disabled")

\* An OTP check that validates only when an OTP was given and lets the
\* invocation through otherwise (mutant).
OtpCheckOptional(elevated, otp, file, t) ==
    IF ~elevated \/ ~Truthy(otp) THEN [outcome |-> "skipped", file |-> file]
    ELSE LET v == validate_otp(file, otp, t) IN
         [outcome |-> IF v.result THEN "passed" ELSE "invalid", file |-> v.file]

\* delete_task step 2: "skipped" when not elevated, "required" when no OTP was
\* given, else validate_otp is called (and consumes the record): "passed" or
\* "invalid".
OtpCheck(elevated, otp, file, t) ==
    IF ~elevated THEN [outcome |-> "skipped", file |-> file]
    ELSE IF ~Truthy(otp) THEN [outcome |-> "required", file |-> file]
    ELSE LET v == validate_otp(file, otp, t) IN
         [outcome |-> IF v.result THEN "passed" ELSE "invalid", file |-> v.file]

\* An archive policy that reads deletion.disable_auto_archive and archives
\* all the same (mutant).
ArchivePolicyIgnoresDisable(cfg, archive_path) ==
    [should_archive |-> TRUE,
     resolved_path |-> IF Truthy(archive_path) THEN archive_path
                       ELSE get_setting(cfg, "deletion.archive"),
     disable_auto |-> IF Truthy(archive_path) THEN PyStr("<unread>")
                      ELSE get_setting(cfg, "deletion.disable_auto_archive")]

\* An archive policy that lets deletion.disable_auto_archive and
\* deletion.archive decide even when an explicit path was given (mutant).
ArchivePolicySettingsFirst(cfg, archive_path) ==
    LET disable_auto == get_setting(cfg, "deletion.disable_auto_archive")
        configured == get_setting(cfg, "deletion.archive") IN
    IF Truthy(disable_auto)
    THEN [should_archive |-> FALSE, resolved_path |-> PyNone,
          disable_auto |-> disable_auto]
    ELSE [should_archive |-> TRUE,
          resolved_path |-> IF Truthy(configured) THEN configured ELSE archive_path,
          disable_auto |-> disable_auto]

\* delete_task step 3: an explicit path always archives, there; otherwise
\* deletion.disable_auto_archive decides and deletion.archive is the place.
ArchivePolicy(cfg, archive_path) ==
    IF Truthy(archive_path)
    THEN [should_archive |-> TRUE, resolved_path |-> archive_path,
          disable_auto |-> PyStr("<unread>")]
    ELSE LET disable_auto == get_setting(cfg, "deletion.disable_auto_archive") IN
         IF ~Truthy(disable_auto)
         THEN [should_archive |-> TRUE,
               resolved_path |-> get_setting(cfg, "deletion.archive"),
               disable_auto |-> disable_auto]
         ELSE [should_archive |-> FALSE, resolved_path |-> PyNone,
               disable_auto |-> disable_auto]

\* An entry that runs the OTP check before the access check, so that a
\* disabled deletion still consumes the record (mutant).
DeleteTaskEntryOtpFirst(cfg, file, t, task_id, archive_path, otp, elevated) ==
    LET access_mode == get_setting(cfg, "deletion.access")
        arrived == [IdleCall EXCEPT !.task_id = task_id, !.archive_path = archive_path,
                                    !.otp = otp, !.elevated = elevated,
                                    !.access_mode = access_mode]
        gate == OtpCheck(elevated, otp, file, t)
        policy == ArchivePolicy(cfg, archive_path)
    IN  IF AccessDenied(access_mode)
        THEN [call |-> [arrived EXCEPT !.pc = "done", !.result = Failure(DisabledError)],
              file |-> gate.file]
        ELSE IF gate.outcome = "required"
        THEN [call |-> [arrived EXCEPT !.pc = "done", !.result = Failure(OtpRequiredError)],
              file |-> gate.file]
        ELSE IF gate.outcome = "invalid"
        THEN [call |-> [arrived EXCEPT !.pc = "done", !.validated = "failed",
                                       !.result = Failure(InvalidOtpError)],
              file |-> gate.file]
        ELSE [call |-> [arrived EXCEPT
                          !.validated = IF gate.outcome = "passed" THEN "passed" ELSE "no",
                          !.disable_auto = policy.disable_auto,
                          !.should_archive = policy.should_archive,
                          !.resolved_path = policy.resolved_path,
                          !.pc = IF policy.should_archive THEN "get_task" ELSE "delete",
                          !.events = IF policy.should_archive
                                     THEN <<Event("get_task", PyNone, PyNone)>>
                                     ELSE <<Event("delete", PyNone, PyNone)>>],
              file |-> gate.file]

\* An entry that demands an OTP whenever deletion.access is "elevated",
\* whatever the caller's flag (mutant).
DeleteTaskEntryModeEnforced(cfg, file, t, task_id, archive_path, otp, elevated) ==
    LET access_mode == get_setting(cfg, "deletion.access")
        arrived == [IdleCall EXCEPT !.task_id = task_id, !.archive_path = archive_path,
                                    !.otp = otp, !.elevated = elevated,
                                    !.access_mode = access_mode]
        gate == OtpCheck(elevated \/ access_mode = PyStr("elevated"), otp, file, t)
        policy == ArchivePolicy(cfg, archive_path)
    IN  IF AccessDenied(access_mode)
        THEN [call |-> [arrived EXCEPT !.pc = "done", !.result = Failure(DisabledError)],
              file |-> file]
        ELSE IF gate.outcome = "required"
        THEN [call |-> [arrived EXCEPT !.pc = "done", !.result = Failure(OtpRequiredError)],
              file |-> gate.file]
        ELSE IF gate.outcome = "invalid"
        THEN [call |-> [arrived EXCEPT !.pc = "done", !.validated = "failed",
                                       !.result = Failure(InvalidOtpError)],
              file |-> gate.file]
        ELSE [call |-> [arrived EXCEPT
                          !.validated = IF gate.outcome = "passed" THEN "passed" ELSE "no",
                          !.disable_auto = policy.disable_auto,
                          !.should_archive = policy.should_archive,
                          !.resolved_path = policy.resolved_path,
                          !.pc = IF policy.should_archive THEN "get_task" ELSE "delete",
                          !.events = IF policy.should_archive
                                     THEN <<Event("get_task", PyNone, PyNone)>>
                                     ELSE <<Event("delete", PyNone, PyNone)>>],
              file |-> gate.file]

\* delete_task from its entry to its first await or return.
DeleteTaskEntry(cfg, file, t, task_id, archive_path, otp, elevated) ==
    LET access_mode == get_setting(cfg, "deletion.access")
        arrived == [IdleCall EXCEPT !.task_id = task_id, !.archive_path = archive_path,
                                    !.otp = otp, !.elevated = elevated,
                                    !.access_mode = access_mode]
        gate == OtpCheck(elevated, otp, file, t)
        policy == ArchivePolicy(cfg, archive_path)
    IN  IF AccessDenied(access_mode)
        THEN [call |-> [arrived EXCEPT !.pc = "done", !.result = Failure(DisabledError)],
              file |-> file]
        ELSE IF gate.outcome = "required"
        THEN [call |-> [arrived EXCEPT !.pc = "done", !.result = Failure(OtpRequiredError)],
              file |-> gate.file]
        ELSE IF gate.outcome = "invalid"
        THEN [call |-> [arrived EXCEPT !.pc = "done", !.validated = "failed",
                                       !.result = Failure(InvalidOtpError)],
              file |-> gate.file]
        ELSE [call |-> [arrived EXCEPT
                          !.validated = IF gate.outcome = "passed" THEN "passed" ELSE "no",
                          !.disable_auto = policy.disable_auto,
                          !.should_archive = policy.should_archive,
                          !.resolved_path = policy.resolved_path,
                          !.pc = IF policy.should_archive THEN "get_task" ELSE "delete",
                          !.events = IF policy.should_archive
                                     THEN <<Event("get_task", PyNone, PyNone)>>
                                     ELSE <<Event("delete", PyNone, PyNone)>>],
              file |-> gate.file]

\* A continuation that issues the delete request before it archives (mutant).
AfterGetTaskDeleteFirst(c, fs, t, task_data, io) ==
    [call |-> [c EXCEPT !.pc = "delete", !.task_data = task_data,
                        !.events = c.events \o
                           <<Event("get_task_returned", task_data, PyNone),
                             Event("delete", PyNone, PyNone)>> \o
                           (IF Truthy(task_data)
                            THEN <<Event("archive", task_data, c.resolved_path)>>
                            ELSE <<>>)],
     fs |-> IF Truthy(task_data)
            THEN archive_deleted_task(fs, ProjectId, c.task_id, task_data,
                                      c.resolved_path, t, io)
            ELSE fs]

\* A continuation that hands the archiver an empty body instead of the one
\* fetched (mutant).
AfterGetTaskWrongBody(c, fs, t, task_data, io) ==
    [call |-> [c EXCEPT !.pc = "delete", !.task_data = task_data,
                        !.events = c.events \o
                           <<Event("get_task_returned", task_data, PyNone)>> \o
                           (IF Truthy(task_data)
                            THEN <<Event("archive", PyDict(""), c.resolved_path)>>
                            ELSE <<>>) \o
                           <<Event("delete", PyNone, PyNone)>>],
     fs |-> IF Truthy(task_data)
            THEN archive_deleted_task(fs, ProjectId, c.task_id, PyDict(""),
                                      c.resolved_path, t, io)
            ELSE fs]

\* A continuation that gives up when the fetch returned nothing, without
\* issuing the delete request (mutant).
AfterGetTaskAbortOnMiss(c, fs, t, task_data, io) ==
    IF Truthy(task_data)
    THEN [call |-> [c EXCEPT !.pc = "delete", !.task_data = task_data,
                             !.events = c.events \o
                                <<Event("get_task_returned", task_data, PyNone),
                                  Event("archive", task_data, c.resolved_path),
                                  Event("delete", PyNone, PyNone)>>],
          fs |-> archive_deleted_task(fs, ProjectId, c.task_id, task_data,
                                      c.resolved_path, t, io)]
    ELSE [call |-> [c EXCEPT !.pc = "done", !.task_data = task_data,
                             !.events = Append(c.events,
                                   Event("get_task_returned", task_data, PyNone)),
                             !.result = Failure(DeleteFailedError(c.task_id))],
          fs |-> fs]

\* A continuation in which a failure inside the archiver reaches delete_task
\* and ends it before the delete request (mutant).
AfterGetTaskArchiverRaises(c, fs, t, task_data, io) ==
    IF Truthy(task_data)
    THEN [call |-> [c EXCEPT !.pc = IF io = "ok" THEN "delete" ELSE "raised",
                             !.task_data = task_data,
                             !.events = c.events \o
                                <<Event("get_task_returned", task_data, PyNone),
                                  Event("archive", task_data, c.resolved_path)>> \o
                                (IF io = "ok" THEN <<Event("delete", PyNone, PyNone)>>
                                 ELSE <<>>)],
          fs |-> archive_deleted_task(fs, ProjectId, c.task_id, task_data,
                                      c.resolved_path, t, io)]
    ELSE [call |-> [c EXCEPT !.pc = "delete", !.task_data = task_data,
                             !.events = c.events \o
                                <<Event("get_task_returned", task_data, PyNone),
                                  Event("delete", PyNone, PyNone)>>],
          fs |-> fs]

\* delete_task from the return of get_task to the await of client.delete: the
\* archiver is called when the fetch returned something truthy, then the
\* delete request is issued.
AfterGetTask(c, fs, t, task_data, io) ==
    IF Truthy(task_data)
    THEN [call |-> [c EXCEPT !.pc = "delete", !.task_data = task_data,
                             !.events = c.events \o
                                <<Event("get_task_returned", task_data, PyNone),
                                  Event("archive", task_data, c.resolved_path),
                                  Event("delete", PyNone, PyNone)>>],
          fs |-> archive_deleted_task(fs, ProjectId, c.task_id, task_data,
                                      c.resolved_path, t, io)]
    ELSE [call |-> [c EXCEPT !.pc = "delete", !.task_data = task_data,
                             !.events = c.events \o
                                <<Event("get_task_returned", task_data, PyNone),
                                  Event("delete", PyNone, PyNone)>>],
          fs |-> fs]

\* A return that takes an empty mapping from client.delete for a failure
\* (`if result:` in place of `if result is not None:`; mutant).
AfterDeleteTruthy(c, result) ==
    [c EXCEPT !.pc = "done",
              !.events = Append(c.events, Event("delete_returned", result, PyNone)),
              !.result = IF Truthy(result) THEN Success(DeletedMessage(c.task_id))
                         ELSE Failure(DeleteFailedError(c.task_id))]

\* delete_task from the return of client.delete to its own return.
AfterDelete(c, result) ==
    [c EXCEPT !.pc = "done",
              !.events = Append(c.events, Event("delete_returned", result, PyNone)),
              !.result = IF result # PyNone THEN Success(DeletedMessage(c.task_id))
                         ELSE Failure(DeleteFailedError(c.task_id))]

\* A call of client.get or client.delete has just been made (c.pc says which):
\* request reads the access token before its try block (client.py line 48),
\* so a ValueError of get_token leaves request, the client call and
\* delete_task, which has no handler of its own.
ClientCall(c, tok) ==
    IF c.pc \in {"get_task", "delete"} /\ get_token(tok).raised
    THEN [c EXCEPT !.pc = "raised"]
    ELSE c

\* What a caller passes as archive_path.
ArchivePathArgs == {PyNone, PyStr(""), PyStr("/my/archive")}

\* sdk.tasks.delete_task(ProjectId, task_id, archive_path, otp, elevated) is
\* called and runs to its first await or return (lines 253-294).
Invoke(task_id, archive_path, otp, elevated) ==
    LET e == DeleteTaskEntry(settings, otpFile, now, task_id, archive_path, otp, elevated)
        tried == e.call.validated # "no"
    IN  /\ otpFile' = e.file
        /\ tries' = IF tried THEN tries + 1 ELSE tries
        /\ passes' = IF e.call.validated = "passed" THEN passes + 1 ELSE passes
        /\ call' = ClientCall([e.call EXCEPT !.try_no = IF tried THEN tries + 1 ELSE 0],
                               token)
        /\ ncalls' = ncalls + 1
        /\ UNCHANGED <<now, otpHist, lastCode, settings, snapshots, auditLog, auxVars>>

\* One delete_task invocation, with any arguments.
DeleteTask ==
    /\ call.pc = "idle"
    /\ \E task_id \in TaskIds, archive_path \in ArchivePathArgs,
          otp \in DeleteOtpArgs, elevated \in BOOLEAN :
          Invoke(task_id, archive_path, otp, elevated)

\* One more of a sequence of elevated delete_task invocations (the way an MCP
\* tool calls it), once the one before has returned.
DeleteTaskElevated ==
    /\ call.pc \in {"idle", "done"}
    /\ ncalls < MaxCalls
    /\ \E task_id \in TaskIds, otp \in DeleteOtpArgs :
          Invoke(task_id, PyNone, otp, TRUE)

\* What the service can answer to GET .../task/{id}: no answer, an error
\* status, a success status with no body, with an empty object, or with the
\* task's body (two bodies, told apart by title).
FetchResponses ==
    {TransportError, Http(404, EmptyBody), Http(200, EmptyBody), Http(200, EmptyObject),
     Http(200, TaskJson("X")), Http(200, TaskJson("Y"))}

\* What client.get can return for the task: None, the empty mapping, or the
\* task's body.
FetchOutcomes == {request(resp) : resp \in FetchResponses}

\* get_task returns into delete_task (lines 284-294).
GetTaskReturns(fetched, ios) ==
    /\ call.pc = "get_task"
    /\ \E task_data \in fetched, io \in ios :
          LET r == AfterGetTask(call, [snapshots |-> snapshots, log |-> auditLog],
                                now, task_data, io)
          IN  /\ call' = ClientCall(r.call, token)
              /\ snapshots' = r.fs.snapshots
              /\ auditLog' = r.fs.log
    /\ UNCHANGED <<now, otpVars, settings, ncalls, auxVars>>

\* What the service can answer to DELETE .../task/{id}: no answer, an error
\* status, or a success status with an empty object or with no body at all.
DeleteResponses ==
    {TransportError, Http(404, EmptyBody), Http(200, EmptyObject), Http(200, EmptyBody)}

\* What client.delete can return: None on any error, else the parsed body.
DeleteOutcomes == {request(resp) : resp \in DeleteResponses}

\* client.delete returns into delete_task (lines 294-300).
ClientDeleteReturns ==
    /\ call.pc = "delete"
    /\ \E resp \in DeleteResponses :
          call' = [AfterDelete(call, request(resp)) EXCEPT !.response = resp]
    /\ UNCHANGED <<now, otpVars, settings, snapshots, auditLog, ncalls, auxVars>>

\* No OTP file, no config.yaml, an empty cache directory, nothing called yet.
InitStores ==
    /\ now = 0
    /\ otpFile = NoOtpFile
    /\ settings = [k \in {} |-> PyNone]
    /\ snapshots = [q \in {} |-> ""]
    /\ auditLog = <<>>
    /\ call = IdleCall
    /\ ncalls = 0
    /\ otpHist = <<>>
    /\ lastCode = ""
    /\ tries = 0
    /\ passes = 0
    /\ lastSet = NoSet
    /\ lastGet = NoGet
    /\ lastArchive = NoArchive
    /\ narch = 0
    /\ validators = [p \in Validators |-> NoValidator]
    /\ creds = NoCreds
    /\ lastList = <<>>
    /\ writers = [p \in Writers |-> NoWriter]

\* The installation after `ticktick auth`: an access token is stored.
Init == InitStores /\ token = "tok"

\* A fresh installation: no access token yet.
InitFresh == InitStores /\ token = ""

NextOtp == GenerateOtp(TRUE) \/ ValidateOtp \/ Tick

\* The OTP gate on its own: generate_otp and validate_otp called directly.
SpecOtp == Init /\ [][NextOtp]_vars

Next ==
    \/ DeleteTask
    \/ GetTaskReturns(FetchOutcomes, IoOutcomes)
    \/ ClientDeleteReturns
    \/ GenerateOtp(FALSE)
    \/ SetSetting(EngineSettingInputs)
    \/ Tick

\* One delete_task invocation, with any arguments, in any state its
\* collaborators (settings, OTP record, clock) can be in.
Spec == Init /\ [][Next]_vars

NextSeq ==
    \/ DeleteTaskElevated
    \/ GetTaskReturns(FetchOutcomes, IoOutcomes)
    \/ ClientDeleteReturns
    \/ GenerateOtp(FALSE)
    \/ Tick

\* A sequence of elevated delete_task invocations under the default settings.
SpecSeq == Init /\ [][NextSeq]_vars

NextToken ==
    \/ DeleteTask
    \/ GetTaskReturns(FetchOutcomes, {"ok"})
    \/ ClientDeleteReturns
    \/ GenerateOtp(FALSE)
    \/ SetSetting(EngineSettingInputs)
    \/ SaveToken

\* One delete_task invocation on an installation that starts without an
\* access token.
SpecToken == InitFresh /\ [][NextToken]_vars

NextRace == GenerateBeforeRace \/ ValidatorStarts \/ ValidatorStep \/ Tick

\* Two validate_otp calls running concurrently against one stored record.
SpecRace == Init /\ [][NextRace]_vars

NextArchiver == CallArchive \/ Tick

\* The archiver on its own: archive_deleted_task called directly.
SpecArchiver == Init /\ [][NextArchiver]_vars

NextWriters == WriterLoads \/ WriterSaves

\* Two set_setting calls on different keys, their load and save steps
\* interleaved.
SpecWriters == Init /\ [][NextWriters]_vars

NextConfig == CallSetSetting \/ SaveClientCredentials \/ CallListSettings

\* The whole of config.yaml: settings written and listed, credentials saved.
SpecConfig == Init /\ [][NextConfig]_vars

NextSettings == CallSetSetting \/ CallGetSetting

\* The settings store on its own: set_setting and get_setting called directly,
\* from an empty override document.
SpecSettings == Init /\ [][NextSettings]_vars

\* ------------------------------------------------------------------ claims on the OTP gate
IsGen(e) == e.op = "generate"
IsVal(e) == e.op = "validate"
HistIdx == 1..Len(otpHist)
LastOp == otpHist[Len(otpHist)]

\* generate at i, then validate of the generated code at i+1, not after expiry.
RoundTripAt(i) ==
    /\ i + 1 <= Len(otpHist)
    /\ IsGen(otpHist[i]) /\ IsVal(otpHist[i + 1])
    /\ otpHist[i + 1].code = otpHist[i].code
    /\ otpHist[i + 1].at <= otpHist[i].at + otpHist[i].expiry

\* C4: generate_otp() followed directly, before expiry, by validate_otp(code)
\* with the returned code returns True, and a second validate_otp(code) right
\* after it returns False.
C4_OtpRoundTrip ==
    \A i \in HistIdx :
        RoundTripAt(i) =>
            /\ otpHist[i + 1].result = TRUE
            /\ (i + 2 <= Len(otpHist) /\ IsVal(otpHist[i + 2])
                    /\ otpHist[i + 2].code = otpHist[i].code)
               => otpHist[i + 2].result = FALSE

C4_Witness ==
    /\ Len(otpHist) = 3
    /\ RoundTripAt(1)
    /\ IsVal(otpHist[3]) /\ otpHist[3].code = otpHist[1].code
    /\ otpHist[2].result = TRUE /\ otpHist[3].result = FALSE

\* C5: every validate_otp call consumes the record: when it returns the store
\* is empty, whatever the candidate (correct, wrong, presented after expiry);
\* so a wrong guess followed by the correct code returns False; and with no
\* record validate_otp returns False.
C5_ValidateConsumes ==
    /\ (Len(otpHist) > 0 /\ IsVal(LastOp)) => ~otpFile.exists
    /\ \A i \in HistIdx :
          (/\ i + 2 <= Len(otpHist)
           /\ IsGen(otpHist[i]) /\ IsVal(otpHist[i + 1]) /\ IsVal(otpHist[i + 2])
           /\ otpHist[i + 1].code # otpHist[i].code
           /\ otpHist[i + 2].code = otpHist[i].code)
          => otpHist[i + 2].result = FALSE
    /\ \A i \in HistIdx :
          (IsVal(otpHist[i]) /\ ~otpHist[i].had) => otpHist[i].result = FALSE

C5_Witness ==
    /\ Len(otpHist) = 3
    /\ IsGen(otpHist[1]) /\ IsVal(otpHist[2]) /\ IsVal(otpHist[3])
    /\ otpHist[2].had /\ otpHist[2].code # otpHist[1].code
    /\ otpHist[3].code = otpHist[1].code /\ otpHist[3].at <= otpHist[1].at + otpHist[1].expiry
    /\ ~otpHist[3].had /\ otpHist[3].result = FALSE
    /\ ~otpFile.exists

\* C6: generate_otp stores expires_at = generation time + expiry_seconds, and
\* the first validate_otp on that record with the matching code returns True
\* exactly when now <= expires_at: past expires_at the correct code fails.
C6_OtpExpiry ==
    /\ (Len(otpHist) > 0 /\ IsGen(LastOp)) =>
          otpFile.exists /\ otpFile.expires_at = LastOp.at + LastOp.expiry
    /\ \A i \in HistIdx :
          (/\ i + 1 <= Len(otpHist)
           /\ IsGen(otpHist[i]) /\ IsVal(otpHist[i + 1])
           /\ otpHist[i + 1].code = otpHist[i].code)
          => (otpHist[i + 1].result
                <=> otpHist[i + 1].at <= otpHist[i].at + otpHist[i].expiry)

C6_Witness ==
    /\ Len(otpHist) >= 2
    /\ IsGen(otpHist[1]) /\ IsVal(otpHist[2])
    /\ otpHist[2].code = otpHist[1].code
    /\ otpHist[2].at > otpHist[1].at + otpHist[1].expiry
    /\ otpHist[2].result = FALSE

\* C7: the store holds one record and generate_otp replaces whatever record
\* was there, expired or not: right after generate_otp the file holds the new
\* code; after a second, different code was generated, validate_otp with the
\* first code returns False; a validate_otp that returns True was given the
\* latest generated code.
C7_SingleSlot ==
    /\ (Len(otpHist) > 0 /\ IsGen(LastOp)) =>
          otpFile.exists /\ PyStr(otpFile.otp) = LastOp.code
    /\ \A i \in HistIdx :
          (/\ i + 2 <= Len(otpHist)
           /\ IsGen(otpHist[i]) /\ IsGen(otpHist[i + 1]) /\ IsVal(otpHist[i + 2])
           /\ otpHist[i + 1].code # otpHist[i].code
           /\ otpHist[i + 2].code = otpHist[i].code)
          => otpHist[i + 2].result = FALSE
    /\ (Len(otpHist) > 0 /\ IsVal(LastOp) /\ LastOp.result) => LastOp.code = PyStr(lastCode)

C7_Witness ==
    /\ Len(otpHist) = 3
    /\ IsGen(otpHist[1]) /\ IsGen(otpHist[2]) /\ IsVal(otpHist[3])
    /\ otpHist[2].had
    /\ otpHist[2].code # otpHist[1].code
    /\ otpHist[3].code = otpHist[1].code
    /\ otpHist[3].at <= otpHist[1].at + otpHist[1].expiry
    /\ otpHist[3].result = FALSE

\* ------------------------------------------------------------------ claims on delete_task
Started == call.pc # "idle"
Done == call.pc = "done"
\* Positions of the events of one kind in the invocation's event sequence.
Where(ev) == {i \in 1..Len(call.events) : call.events[i].ev = ev}
Count(ev) == Cardinality(Where(ev))
NoApiCall == Count("get_task") = 0 /\ Count("delete") = 0 /\ Count("archive") = 0
NothingArchived == snapshots = [q \in {} |-> ""] /\ auditLog = <<>>

\* C1: an invocation that finds deletion.access resolved to "disabled" returns
\* the failure naming that setting, whatever elevated, otp and archive_path
\* are, and makes no call: no fetch, no archiver, no delete.
C1_DisabledNoApiCall ==
    (Started /\ call.access_mode = PyStr("disabled")) =>
        /\ Done
        /\ call.result = Failure(DisabledError)
        /\ NoApiCall
        /\ NothingArchived

C1_Witness ==
    /\ Done
    /\ call.access_mode = PyStr("disabled")
    /\ call.elevated /\ Truthy(call.otp) /\ Truthy(call.archive_path)
    /\ otpFile.exists /\ PyStr(otpFile.otp) = call.otp /\ now <= otpFile.expires_at
    /\ call.result = Failure(DisabledError)

\* The delete request of an elevated invocation needs an OTP that validate_otp
\* accepted in that invocation, and a rejected OTP ends it before any call.
ElevatedNeedsValidOtp ==
    /\ (call.elevated /\ Count("delete") > 0) =>
          Truthy(call.otp) /\ call.validated = "passed"
    /\ (call.elevated /\ call.validated = "failed") =>
          Done /\ call.result = Failure(InvalidOtpError) /\ NoApiCall

\* C2 as stated: every elevated invocation without an OTP returns the "OTP
\* required" failure.
C2_Original ==
    /\ ElevatedNeedsValidOtp
    /\ (Started /\ call.elevated /\ ~Truthy(call.otp)) =>
          Done /\ call.result = Failure(OtpRequiredError) /\ NoApiCall

\* C2, amended: with elevated=true the delete call is issued only if an OTP
\* was supplied and validate_otp returned True for it in that invocation; a
\* rejected OTP gives the "Invalid or expired OTP" failure; no OTP (None or
\* empty) gives the "OTP required" failure unless deletion.access is
\* "disabled", which is reported first; in each case nothing is called.
C2_ElevatedOtpGate ==
    /\ ElevatedNeedsValidOtp
    /\ (Started /\ call.elevated /\ ~Truthy(call.otp)) =>
          /\ Done /\ NoApiCall
          /\ call.result = IF call.access_mode = PyStr("disabled")
                           THEN Failure(DisabledError)
                           ELSE Failure(OtpRequiredError)

C2_Witness ==
    /\ Done /\ call.elevated
    /\ call.otp = PyStr("")
    /\ call.access_mode = PyStr("elevated")
    /\ otpFile.exists
    /\ call.result = Failure(OtpRequiredError)

C8_ReadBeforeDestroy ==
    /\ Count("get_task") <= 1 /\ Count("delete") <= 1
    /\ Count("get_task_returned") <= Count("get_task")
    /\ \A d \in Where("delete") :
          /\ \A g \in Where("get_task") :
                 g < d /\ \E r \in Where("get_task_returned") : g < r /\ r < d
          /\ \A a \in Where("archive") : a < d
          /\ call.should_archive => Count("get_task_returned") = 1
    /\ \A a \in Where("archive") : \E r \in Where("get_task_returned") : r < a

C8_Witness ==
    /\ Done
    /\ call.should_archive
    /\ Count("get_task") = 1 /\ Count("archive") = 1 /\ Count("delete") = 1
    /\ Count("delete_returned") = 1

C10_NoArchiveStillDeletes ==
    (/\ Started
     /\ Truthy(call.disable_auto) /\ call.disable_auto # PyStr("<unread>")
     /\ ~Truthy(call.archive_path)
     /\ call.access_mode # PyStr("disabled")
     /\ (call.elevated => call.validated = "passed"))
    => /\ Count("get_task") = 0 /\ Count("archive") = 0
       /\ Count("delete") = 1
       /\ NothingArchived

C10_Witness ==
    /\ Done
    /\ call.disable_auto = PyBool(TRUE)
    /\ call.archive_path = PyStr("")
    /\ call.elevated /\ call.validated = "passed"
    /\ Count("get_task") = 0 /\ Count("archive") = 0 /\ Count("delete") = 1

\* The invocation got past the access check and the OTP check.
PastGates ==
    /\ Started
    /\ call.access_mode # PyStr("disabled")
    /\ call.elevated => call.validated = "passed"

\* The directories snapshots were written to.
SnapshotDirs == {q.dir : q \in DOMAIN snapshots}

\* C11: an explicit archive_path selects archival whatever the settings hold:
\* deletion.disable_auto_archive and deletion.archive are not read, the fetch
\* is issued, and the archiver is handed exactly that path, so every snapshot
\* lands under it.
C11_ExplicitPathWins ==
    (PastGates /\ Truthy(call.archive_path)) =>
        /\ call.should_archive
        /\ call.resolved_path = call.archive_path
        /\ call.disable_auto = PyStr("<unread>")
        /\ Count("get_task") = 1
        /\ \A a \in Where("archive") : call.events[a].path = call.archive_path
        /\ (\A r \in Where("get_task_returned") : Truthy(call.events[r].data) =>
               Count("archive") = 1)
        /\ SnapshotDirs \subseteq {call.archive_path.v}

C11_Witness ==
    /\ Done
    /\ call.archive_path = PyStr("/my/archive")
    /\ DictGet(settings, "deletion.disable_auto_archive") = PyBool(TRUE)
    /\ DictGet(settings, "deletion.archive") = PyStr("/cfg/archive")
    /\ Where("get_task") = {1}
    /\ Count("archive") = 1
    /\ SnapshotDirs = {"/my/archive"}
    /\ Len(auditLog) = 1

\* C12: when archival was selected and the fetch returned nothing, the
\* archiver is not called and nothing is written, the delete request is still
\* issued, once, and the result is decided by what the delete call returned
\* alone.
C12_FetchMissStillDeletes ==
    (/\ Started /\ call.should_archive
     /\ \E r \in Where("get_task_returned") : ~Truthy(call.events[r].data))
    => /\ Count("archive") = 0
       /\ NothingArchived
       /\ Count("delete") = 1
       /\ Done =>
             /\ Count("delete_returned") = 1
             /\ \A r \in Where("delete_returned") :
                   call.result = IF call.events[r].data # PyNone
                                 THEN Success(DeletedMessage(call.task_id))
                                 ELSE Failure(DeleteFailedError(call.task_id))

C12_Witness ==
    /\ Done
    /\ call.should_archive
    /\ call.task_data = PyNone
    /\ Count("get_task_returned") = 1
    /\ Count("archive") = 0
    /\ call.result = Success(DeletedMessage(call.task_id))

\* C13: once the delete request is issued, delete_task returns success: true
\* with the "deleted successfully" message exactly when client.delete
\* returned a value other than None, the empty mapping included, and the
\* "Failed to delete task" failure exactly when it returned None.
C13_DeleteOutcomeDecides ==
    /\ (Done /\ Count("delete") > 0) => Count("delete_returned") = 1
    /\ \A r \in Where("delete_returned") :
          /\ Done
          /\ call.events[r].data # PyNone <=>
                call.result = Success(DeletedMessage(call.task_id))
          /\ call.events[r].data = PyNone <=>
                call.result = Failure(DeleteFailedError(call.task_id))

C13_Witness ==
    /\ Done
    /\ \E r \in Where("delete_returned") : call.events[r].data = PyDict("")
    /\ call.result = Success(DeletedMessage(call.task_id))
    /\ call.result.success

\* C14: when the service answers the DELETE request with a success status and
\* an empty response body, client.delete returns a value other than None and
\* delete_task returns success: true.
C14_EmptyBodyIsSuccess ==
    (/\ Done
     /\ call.response.kind = "response"
     /\ ~RaisesForStatus(call.response.status)
     /\ call.response.body = EmptyBody)
    => /\ \A r \in Where("delete_returned") : call.events[r].data # PyNone
       /\ call.result = Success(DeletedMessage(call.task_id))

\* C15: delete_task never raises: every invocation, whatever the settings,
\* the OTP record, the access token (stored or absent) and the outcomes of
\* the fetch and delete calls, ends by returning a structured result.
C15_NeverRaises ==
    /\ call.pc # "raised"
    /\ Done => /\ call.result.key = (IF call.result.success THEN "message" ELSE "error")
               /\ call.result.text # <<>>

\* ------------------------------------------------------------------ claims on the settings store
\* A direct set_setting call has been made, on a key of the given type.
SetOn(type) ==
    /\ lastSet.raised # "none"
    /\ lastSet.key \in DOMAIN load_manifest
    /\ load_manifest[lastSet.key].type = type
\* The override document before the latest set_setting, with value under its key.
Written(value) ==
    [k \in DOMAIN lastSet.before \cup {lastSet.key} |->
        IF k = lastSet.key THEN value ELSE lastSet.before[k]]
\* The texts of the model that are case variants of the accepted ones.
TrueTexts == {"true", "TRUE", "Yes", "1", "oN"}
FalseTexts == {"false", "fALSE", "No", "0", "OFF"}

\* C16: from an empty override document, every key stored in the overrides is
\* a manifest key; set_setting on a key the manifest does not have fails with
\* the unknown-setting error and stores nothing, and get_setting on such a key
\* returns None.
C16_OnlyManifestKeys ==
    /\ DOMAIN settings \subseteq DOMAIN load_manifest
    /\ (lastSet.raised # "none" /\ lastSet.key \notin DOMAIN load_manifest) =>
          lastSet.raised = "Unknown setting" /\ settings = lastSet.before
    /\ (lastGet.key # "" /\ lastGet.key \notin DOMAIN load_manifest) =>
          lastGet.value = PyNone

C16_Witness ==
    /\ lastSet.key = "deletion.acces" /\ lastSet.value = PyStr("disabled")
    /\ lastSet.raised = "Unknown setting"
    /\ DOMAIN settings = DOMAIN load_manifest
    /\ lastGet = [key |-> "deletion.acces", value |-> PyNone]

\* C17: set_setting of a boolean setting with a text stores True for a case
\* variant of true/yes/1/on, stores False for a case variant of
\* false/no/0/off, and for any other text fails with the invalid-boolean error
\* and stores nothing.
C17_BooleanTexts ==
    (SetOn("boolean") /\ lastSet.value.ty = "str") =>
        IF lastSet.value.v \in TrueTexts
        THEN lastSet.raised = "" /\ settings = Written(PyBool(TRUE))
        ELSE IF lastSet.value.v \in FalseTexts
        THEN lastSet.raised = "" /\ settings = Written(PyBool(FALSE))
        ELSE lastSet.raised = "Invalid boolean value" /\ settings = lastSet.before

C17_Witness ==
    /\ SetOn("boolean")
    /\ lastSet.value = PyStr("fALSE")
    /\ DictGet(lastSet.before, lastSet.key) = PyBool(TRUE)
    /\ settings[lastSet.key] = PyBool(FALSE)

\* C18: set_setting of a choice setting with a value outside its option list
\* fails with the invalid-value error and stores nothing; with a declared
\* option it succeeds, stores it, and a following get_setting returns it.
C18_ChoiceRoundTrip ==
    SetOn("choice") =>
        IF lastSet.value.ty = "str" /\ lastSet.value.v \in load_manifest[lastSet.key].options
        THEN /\ lastSet.raised = ""
             /\ settings = Written(lastSet.value)
             /\ lastGet.key = lastSet.key => lastGet.value = lastSet.value
        ELSE lastSet.raised = "Invalid value" /\ settings = lastSet.before

C18_Witness ==
    /\ SetOn("choice")
    /\ lastSet.value = PyStr("disabled")
    /\ DictGet(lastSet.before, lastSet.key) = PyStr("enabled")
    /\ lastGet = [key |-> lastSet.key, value |-> PyStr("disabled")]

\* C19: get_setting returns the stored override when the key is stored with
\* a value other than None (False and the empty text included), otherwise the
\* manifest default, otherwise None; a stored None does not hide the default.
C19_Layering ==
    lastGet.key # "" =>
        lastGet.value =
            IF lastGet.key \in DOMAIN settings /\ settings[lastGet.key] # PyNone
            THEN settings[lastGet.key]
            ELSE IF lastGet.key \in DOMAIN load_manifest
            THEN load_manifest[lastGet.key].default
            ELSE PyNone

C19_Witness ==
    /\ lastGet.key = "deletion.disable_auto_archive"
    /\ lastGet.key \in DOMAIN settings
    /\ settings[lastGet.key] = PyNone
    /\ lastGet.value = PyBool(FALSE)
    /\ DictGet(settings, "deletion.archive") = PyStr("")

\* C20: set_setting(key, None) on a manifest key of any type returns without
\* error, and get_setting(key) then returns the manifest default, whatever
\* override was stored before.
C20_ResetToDefault ==
    (/\ lastSet.raised # "none"
     /\ lastSet.key \in DOMAIN load_manifest
     /\ lastSet.value = PyNone)
    => /\ lastSet.raised = ""
       /\ get_setting(settings, lastSet.key) = load_manifest[lastSet.key].default
       /\ lastGet.key = lastSet.key => lastGet.value = load_manifest[lastSet.key].default

\* ------------------------------------------------------------------ claims on the archiver
\* A direct archive_deleted_task call has been made.
Archived == lastArchive.io # "none"
\* The snapshot files the latest call created or rewrote.
Touched ==
    {q \in DOMAIN snapshots :
        q \notin DOMAIN lastArchive.before.snapshots
        \/ snapshots[q] # lastArchive.before.snapshots[q]}
\* task_<task>_project_<project>.deleted_<timestamp>.json
ExpectedName(project_id, task_id, t) ==
    <<"task_", task_id, "_project_", project_id, ".deleted_", t, ".json">>

\* C21: the snapshot file name is task_<task>_project_<project>.deleted_<second>.json,
\* a function of the task id, the project id and the second of the call alone:
\* it is the same whatever the task data and the destination directory are.
C21_FilenameDeterminism ==
    /\ Archived =>
          /\ \A q \in Touched :
                q.name = ExpectedName(lastArchive.project_id, lastArchive.task_id,
                                      lastArchive.at)
          /\ lastArchive.io = "ok" =>
                \E q \in DOMAIN snapshots :
                    /\ q.name = ExpectedName(lastArchive.project_id, lastArchive.task_id,
                                             lastArchive.at)
                    /\ snapshots[q] = lastArchive.task_data.v
    /\ \A i \in 1..Len(auditLog) :
          auditLog[i].snapshot.name =
              ExpectedName(auditLog[i].project, auditLog[i].task, auditLog[i].on)

C21_Witness ==
    /\ lastArchive.io = "ok" /\ lastArchive.at > 0
    /\ \E q1, q2 \in DOMAIN snapshots :
          /\ q1.dir # q2.dir
          /\ q1.name = q2.name
          /\ snapshots[q1] = "X" /\ snapshots[q2] = "Y"

\* C30: archive_deleted_task appends its log line only after it wrote the
\* snapshot: one line, naming that snapshot, when every step succeeded, and
\* none when creating the directory, opening or writing the snapshot (or the
\* append itself) failed; the lines that were there stay as they were; every
\* line names a snapshot file that exists.
C30_LogAfterSnapshot ==
    /\ Archived =>
          /\ Len(auditLog) >= Len(lastArchive.before.log)
          /\ SubSeq(auditLog, 1, Len(lastArchive.before.log)) = lastArchive.before.log
          /\ lastArchive.io # "ok" => auditLog = lastArchive.before.log
          /\ lastArchive.io = "ok" =>
                /\ Len(auditLog) = Len(lastArchive.before.log) + 1
                /\ auditLog[Len(auditLog)].task = lastArchive.task_id
                /\ auditLog[Len(auditLog)].project = lastArchive.project_id
                /\ auditLog[Len(auditLog)].on = lastArchive.at
                /\ auditLog[Len(auditLog)].snapshot \in DOMAIN snapshots
                /\ snapshots[auditLog[Len(auditLog)].snapshot] = lastArchive.task_data.v
    /\ \A i \in 1..Len(auditLog) : auditLog[i].snapshot \in DOMAIN snapshots
    /\ Len(auditLog) <= narch

C30_Witness ==
    /\ lastArchive.io = "dump"
    /\ Len(lastArchive.before.log) = 1
    /\ auditLog = lastArchive.before.log
    /\ \E q \in Touched : snapshots[q] = "<partial>"

\* C22: whatever fails inside archive_deleted_task (resolving the cache
\* directory, creating the destination, writing the snapshot, appending the
\* log line), the call returns to delete_task, which then issues the delete
\* request, once, and finishes with the result of that request.
C22_ArchiverNeverBlocks ==
    Count("archive") > 0 =>
        /\ call.pc \in {"delete", "done"}
        /\ Count("archive") = 1 /\ Count("delete") = 1
        /\ \A a \in Where("archive") : \A d \in Where("delete") : a < d
        /\ Len(auditLog) <= 1
        /\ Done => Count("delete_returned") = 1

C22_Witness ==
    /\ Done
    /\ Count("archive") = 1
    /\ Truthy(call.task_data)
    /\ DOMAIN snapshots = {} /\ auditLog = <<>>
    /\ Count("delete_returned") = 1
    /\ call.result = Success(DeletedMessage(call.task_id))

\* The directory the archiver writes to for a destination it is handed.
DirOf(path) == IF Truthy(path) THEN path.v ELSE DefaultArchiveDir
\* The name of the audit log file.
LogFileName == <<"deleted-tasks.log">>

Accepted == {p \in Validators : validators[p].pc = "done" /\ validators[p].result}

\* C24: of two validate_otp calls running concurrently against one stored
\* record, in every interleaving of their steps, at most one returns True.
C24_AtMostOneTrue == Cardinality(Accepted) <= 1

C24_Witness ==
    /\ \A p \in Validators :
          /\ validators[p].pc = "done"
          /\ validators[p].data.exists
          /\ validators[p].provided = PyStr(validators[p].data.otp)
          /\ now <= validators[p].data.expires_at
    /\ Cardinality(Accepted) = 1

\* ------------------------------------------------------------------ claims on config.yaml
\* C25: a set_setting call that raises (unknown key, invalid boolean text,
\* invalid choice) leaves the stored settings as they were; one that returns
\* changes the entry of its key alone: every other override keeps its value,
\* no other key appears or disappears; and no set_setting call changes the
\* stored client credentials.
C25_SetSettingFrame ==
    /\ [](lastSet.raised # "none" =>
            IF lastSet.raised # ""
            THEN settings = lastSet.before
            ELSE /\ DOMAIN settings = DOMAIN lastSet.before \cup {lastSet.key}
                 /\ \A k \in DOMAIN lastSet.before \ {lastSet.key} :
                       settings[k] = lastSet.before[k])
    /\ [][lastSet' # lastSet => creds' = creds]_vars

C25_Witness ==
    /\ lastSet.raised = ""
    /\ lastSet.key = "deletion.archive"
    /\ DOMAIN lastSet.before = {"deletion.access", "deletion.disable_auto_archive"}
    /\ settings["deletion.access"] = PyStr("disabled")
    /\ settings["deletion.disable_auto_archive"] = PyBool(TRUE)
    /\ creds = [client_id |-> "id2", client_secret |-> "secret2"]

\* C29: list_settings reports exactly the manifest keys, in manifest order,
\* and for each of them the value get_setting returns.
C29_ListAgreesWithGet ==
    lastList # <<>> =>
        /\ Len(lastList) = Len(ManifestOrder)
        /\ \A i \in 1..Len(lastList) :
              /\ lastList[i].key = ManifestOrder[i]
              /\ lastList[i].value = get_setting(settings, lastList[i].key)

\* The concurrent set_setting calls that saved.
Savers == {p \in Writers : writers[p].pc = "done"}
\* The value set_setting stores for the texts the concurrent calls pass.
StoredFor(w) ==
    IF load_manifest[w.key].type = "boolean" THEN PyBool(TRUE) ELSE w.value
\* The document a call saves: the one it loaded, with its key set.
SavedBy(w) ==
    [k \in DOMAIN w.config.settings \cup {w.key} |->
        IF k = w.key THEN StoredFor(w) ELSE w.config.settings[k]]

\* C26: when set_setting calls on different keys interleave their load and
\* save steps, the stored document is exactly the one saved by the call that
\* saved last, never a merge: the update of a call that saved earlier is in
\* it only if the last saver had loaded it.
C26_LastWriterWins ==
    \A p \in Savers :
        (\A q \in Savers : writers[q].turn <= writers[p].turn) =>
            /\ settings = SavedBy(writers[p])
            /\ \A q \in Savers \ {p} :
                  writers[q].key \in DOMAIN settings <=>
                      writers[q].key \in DOMAIN writers[p].config.settings

C26_Witness ==
    /\ Savers = Writers
    /\ \E p, q \in Writers :
          /\ writers[p].turn = 1 /\ writers[q].turn = 2
          /\ writers[p].key # writers[q].key
          /\ writers[p].key \notin DOMAIN settings
          /\ DOMAIN settings = {writers[q].key}

\* ------------------------------------------------------------------ claims on the gates
\* C27: an invocation rejected before the OTP check (deletion.access disabled,
\* or elevated without an OTP) and an invocation that is not elevated do not
\* call validate_otp: the OTP record is the same after the invocation started
\* as before, so an unexpired code stays usable.
C27_RejectedLeavesOtp ==
    [][(/\ call.pc = "idle" /\ call'.pc # "idle"
        /\ \/ call'.access_mode = PyStr("disabled")
           \/ ~call'.elevated
           \/ ~Truthy(call'.otp))
       => /\ otpFile' = otpFile
          /\ call'.validated = "no"
          /\ tries' = tries]_vars

C27_Witness ==
    /\ Done
    /\ call.access_mode = PyStr("disabled")
    /\ call.elevated
    /\ call.validated = "no" /\ tries = 0
    /\ otpFile.exists /\ call.otp = PyStr(otpFile.otp) /\ now < otpFile.expires_at

\* C28 as stated: when deletion.access is "elevated", the delete request is
\* issued only after an OTP was supplied and validated in that invocation,
\* whatever the elevated flag.
C28_Original ==
    (call.access_mode = PyStr("elevated") /\ Count("delete") > 0) =>
        Truthy(call.otp) /\ call.validated = "passed"

\* C28, amended: deletion.access = "elevated" passes the access check like
\* "enabled"; the OTP is demanded by the caller's elevated flag alone.  With
\* elevated=true the delete request needs a validated OTP; with elevated=false
\* (what the CLI passes) the invocation goes on to the fetch or the delete
\* request without any OTP check.
C28_ElevatedModeIsCallerAsserted ==
    (Started /\ call.access_mode = PyStr("elevated")) =>
        /\ (call.elevated /\ Count("delete") > 0) =>
              Truthy(call.otp) /\ call.validated = "passed"
        /\ ~call.elevated =>
              /\ call.validated = "no"
              /\ Count("get_task") + Count("delete") >= 1
              /\ call.result \notin {Failure(OtpRequiredError), Failure(InvalidOtpError)}

C28_Witness ==
    /\ Done
    /\ call.access_mode = PyStr("elevated")
    /\ ~call.elevated /\ call.otp = PyNone
    /\ Count("delete") = 1
    /\ call.result = Success(DeletedMessage(call.task_id))
====
